---- MODULE Spec2Model ----
(***************************************************************************)
(* Route groups, handler normalisation and the root route table of the     *)
(* nine HTTP server (pkg/server).                                          *)
(*                                                                         *)
(* A path is a sequence of tokens: "/" or a segment name.  A handler value *)
(* is a record [typ, fn]: its dynamic Go type and the function it holds    *)
(* ("nil" for a nil function value).  A slice is [arr, len] over the heap  *)
(* `arrays` of backing arrays; arr = 0 is the nil slice and the capacity   *)
(* of a slice is the length of its backing array (every slice of this      *)
(* program starts at offset 0).                                            *)
(***************************************************************************)
EXTENDS Integers, Sequences, FiniteSets, TLC

VARIABLES
    arrays,   \* heap: backing arrays of the []any slices held by groups
    groups,   \* every RouteGroup created so far
    routes,   \* Server.routes, the root route table
    last,     \* the last call made and what it returned
    segs,     \* SpecJoin: the three path arguments of the composition
    batch,    \* SpecBatch: the argument list and result of registerHandlers
    serve,    \* SpecServe: one handler logic invoked in each handler shape
    exchange, \* SpecExchange: one request going through a route's chain
    parse,    \* SpecParams: a destination structure given to ParamsParser
    reply,    \* SpecReply: one Response and the calls made on it
    stream    \* SpecStream: one request's body stream and the reads made of it

vars == <<arrays, groups, routes, last, segs, batch, serve, exchange, parse,
          reply, stream>>

----------------------------------------------------------------------------
(* Bounds *)

MaxGroups == 3
MaxRoutes == 2
MaxBatch == 3
MaxChain == 2
MaxFields == 2
MaxSets == 2
MaxCalls == 3

----------------------------------------------------------------------------
(* Handler values *)

HandlerTypes == {"Handler", "HandlerWithContext", "func2", "funcCtx"}

Val(t, f) == [typ |-> t, fn |-> f]

UntypedNil == Val("nil", "nil")

Zero == Val("zero", "nil")      \* an array cell never written (nil interface)

Methods == {"GET", "POST", "PUT", "PATCH", "DELETE"}

----------------------------------------------------------------------------
(* Errors *)

NoErr == [kind |-> "nil", pos |-> -1, typ |-> ""]

ErrPutAHandler == [kind |-> "MissingHandler", pos |-> -1, typ |-> ""]

\* fmt.Errorf("invalid handler type: %v ...", reflect.TypeOf(h))
InvalidHandlerType(h) ==
    [kind |-> "InvalidHandlerType", pos |-> -1,
     typ |-> IF h.typ \in {"nil", "zero"} THEN "<nil>" ELSE h.typ]

\* Mutant: the position counted from one
MiddlewareErr_OneBased(i, e) ==
    [kind |-> "middleware", pos |-> i + 1, typ |-> e.typ]

\* fmt.Errorf("middleware at position %d: %w", i, err)
MiddlewareErr(i, e) == [kind |-> "middleware", pos |-> i, typ |-> e.typ]

\* fmt.Errorf("final handler: %w", err)
FinalErr(e) == [kind |-> "final", pos |-> -1, typ |-> e.typ]

----------------------------------------------------------------------------
(* Handler normalisation *)

\* The nil Handler: what validateHandler returns beside an error, and what a
\* nil function value of type Handler is.
NilHandler == [wrap |-> "direct", fn |-> "nil"]

\* Mutant: the one-argument context function is left unwrapped, so the
\* handler returned for it stays nil
validateHandler_CtxFuncUnwrapped(h) ==
    CASE h.typ = "Handler" ->
            [handler |-> [wrap |-> "direct", fn |-> h.fn], err |-> NoErr]
      [] h.typ = "HandlerWithContext" ->
            [handler |-> [wrap |-> "ctxMethod", fn |-> h.fn], err |-> NoErr]
      [] h.typ = "func2" ->
            [handler |-> [wrap |-> "direct", fn |-> h.fn], err |-> NoErr]
      [] h.typ = "funcCtx" ->
            [handler |-> NilHandler, err |-> NoErr]
      [] OTHER ->
            [handler |-> NilHandler, err |-> InvalidHandlerType(h)]

validateHandler(h) ==
    CASE h.typ = "Handler" ->
            [handler |-> [wrap |-> "direct", fn |-> h.fn], err |-> NoErr]
      [] h.typ = "HandlerWithContext" ->
            [handler |-> [wrap |-> "ctxMethod", fn |-> h.fn], err |-> NoErr]
      [] h.typ = "func2" ->
            [handler |-> [wrap |-> "direct", fn |-> h.fn], err |-> NoErr]
      [] h.typ = "funcCtx" ->
            [handler |-> [wrap |-> "ctxConv", fn |-> h.fn], err |-> NoErr]
      [] OTHER ->
            [handler |-> NilHandler, err |-> InvalidHandlerType(h)]

\* Mutant: each normalised middleware put in front of the ones before it
RECURSIVE validateMiddlewares_Prepend(_, _, _)
validateMiddlewares_Prepend(handlers, i, acc) ==
    IF i > Len(handlers) - 1
    THEN [middlewares |-> acc, err |-> NoErr]
    ELSE LET v == validateHandler(handlers[i])
         IN IF v.err # NoErr
            THEN [middlewares |-> <<>>, err |-> MiddlewareErr(i - 1, v.err)]
            ELSE validateMiddlewares_Prepend(handlers, i + 1,
                                             <<v.handler>> \o acc)

\* The loop of registerHandlers over handlers[0 .. lastIndex-1], from index i
\* (1-based here; the reported position is zero-based).
RECURSIVE validateMiddlewares(_, _, _)
validateMiddlewares(handlers, i, acc) ==
    IF i > Len(handlers) - 1
    THEN [middlewares |-> acc, err |-> NoErr]
    ELSE LET v == validateHandler(handlers[i])
         IN IF v.err # NoErr
            THEN [middlewares |-> <<>>, err |-> MiddlewareErr(i - 1, v.err)]
            ELSE validateMiddlewares(handlers, i + 1, Append(acc, v.handler))

registerHandlers(handlers) ==
    IF Len(handlers) = 0
    THEN [handler |-> NilHandler, middlewares |-> <<>>, err |-> ErrPutAHandler]
    ELSE LET m == validateMiddlewares(handlers, 1, <<>>)
             f == validateHandler(handlers[Len(handlers)])
         IN IF m.err # NoErr
            THEN [handler |-> NilHandler, middlewares |-> <<>>, err |-> m.err]
            ELSE IF f.err # NoErr
            THEN [handler |-> NilHandler, middlewares |-> <<>>,
                  err |-> FinalErr(f.err)]
            ELSE [handler |-> f.handler, middlewares |-> m.middlewares,
                  err |-> NoErr]

----------------------------------------------------------------------------
(* Path joining *)

Sep == "/"

\* stringx.String.TrimSuffix / TrimPrefix: at most one occurrence is removed
TrimSuffix(s, sep) ==
    IF Len(s) > 0 /\ s[Len(s)] = sep THEN SubSeq(s, 1, Len(s) - 1) ELSE s

TrimPrefix(s, sep) ==
    IF Len(s) > 0 /\ s[1] = sep THEN SubSeq(s, 2, Len(s)) ELSE s

\* Mutant: no special case for "" and "/"
fullPath_AlwaysJoin(basePath, path) ==
    TrimSuffix(basePath, Sep) \o <<Sep>> \o TrimPrefix(path, Sep)

fullPath(basePath, path) ==
    IF path = <<Sep>> \/ path = <<>>
    THEN basePath
    ELSE TrimSuffix(basePath, Sep) \o <<Sep>> \o TrimPrefix(path, Sep)

----------------------------------------------------------------------------
(* Slices of any: the variadic parameter and append *)

NilSlice == [arr |-> 0, len |-> 0]

Cap(arrs, s) == IF s.arr = 0 THEN 0 ELSE Len(arrs[s.arr])

Elems(arrs, s) == IF s.arr = 0 THEN <<>> ELSE SubSeq(arrs[s.arr], 1, s.len)

\* f(a, b, c): the callee's variadic parameter is a fresh array of exactly
\* the arguments; f() passes the nil slice.
VariadicArgs(arrs, elems) ==
    IF Len(elems) = 0
    THEN [arrays |-> arrs, slice |-> NilSlice]
    ELSE [arrays |-> Append(arrs, elems),
          slice |-> [arr |-> Len(arrs) + 1, len |-> Len(elems)]]

\* The capacity append gives a new backing array (gc runtime, capacities
\* under 256, 16-byte elements: no size-class rounding up to 16 elements).
growCap(oldCap, newLen) ==
    IF newLen > 2 * oldCap THEN newLen ELSE 2 * oldCap

\* append(s, elems...): within capacity the elements are written into the
\* backing array of s, past its length; otherwise into a new array.
AppendSlice(arrs, s, elems) ==
    LET newLen == s.len + Len(elems)
    IN IF Len(elems) = 0
       THEN [arrays |-> arrs, slice |-> s]
       ELSE IF newLen <= Cap(arrs, s)
       THEN [arrays |->
                [arrs EXCEPT ![s.arr] =
                    [i \in 1..Len(@) |->
                        IF i > s.len /\ i <= newLen
                        THEN elems[i - s.len] ELSE @[i]]],
             slice |-> [arr |-> s.arr, len |-> newLen]]
       ELSE [arrays |->
                Append(arrs,
                    [i \in 1..growCap(Cap(arrs, s), newLen) |->
                        IF i <= s.len THEN arrs[s.arr][i]
                        ELSE IF i <= newLen THEN elems[i - s.len]
                        ELSE Zero]),
             slice |-> [arr |-> Len(arrs) + 1, len |-> newLen]]

----------------------------------------------------------------------------
(* The root server *)

Root == 0

\* Server.registerRoute: the last handler is the route's handler, the ones
\* before it its middlewares; the route is appended to the table.
registerRoute(rts, method, endpoint, handlers) ==
    IF Len(handlers) = 0
    THEN [routes |-> rts, err |-> ErrPutAHandler]
    ELSE [routes |->
             Append(rts,
                 [pattern |-> <<method, " ">> \o endpoint,
                  handler |-> handlers[Len(handlers)],
                  middlewares |-> SubSeq(handlers, 1, Len(handlers) - 1)]),
          err |-> NoErr]

\* Server.Get/Post/Put/Patch/Delete of pkg/server: the raw handler values are
\* normalised once, at registration, and the route is recorded.
serverVerb(rts, method, endpoint, handlers) ==
    LET r == registerHandlers(handlers)
    IN IF r.err # NoErr
       THEN [routes |-> rts, err |-> r.err]
       ELSE registerRoute(rts, method, endpoint,
                          Append(r.middlewares, r.handler))

----------------------------------------------------------------------------
(* Route groups *)

NewRouteGroup(server, basePath, middlewares) ==
    [server |-> server, basePath |-> basePath, middlewares |-> middlewares]

\* The chain a group holds now: its slice read through the heap.
Chain(arrs, g) == Elems(arrs, g.middlewares)

routeHandlers(arrs, g, handlers) == AppendSlice(arrs, g.middlewares, handlers)

\* History kept beside a group: who created it and how, the middlewares
\* given to the call, and its chain at that moment.
GroupHist(arrs, g, how, parent, own, inherit) ==
    [how |-> how, parent |-> parent, own |-> own, inherit |-> inherit,
     born |-> Chain(arrs, g)]

\* A world is [arrays, groups, routes, calls, fns]; calls lists the per-verb
\* calls made so far within the running operation and fns the groups its
\* callbacks were invoked with.
World == [arrays |-> arrays, groups |-> groups, routes |-> routes,
          calls |-> <<>>, fns |-> <<>>]

\* Server.Group
serverGroup(W, how, parent, basePath, mws) ==
    LET a == VariadicArgs(W.arrays, mws)
        g == NewRouteGroup(Root, basePath, a.slice)
        inherit == IF parent = Root THEN <<>>
                   ELSE Chain(W.arrays, W.groups[parent])
    IN [W EXCEPT !.arrays = a.arrays,
                 !.groups = Append(@, g @@ GroupHist(a.arrays, g, how, parent,
                                                     mws, inherit))]

\* RouteGroup.Group
groupGroup(W, gi, basePath, mws) ==
    LET g == W.groups[gi]
        ap == AppendSlice(W.arrays, g.middlewares, mws)
        n == NewRouteGroup(g.server, fullPath(g.basePath, basePath), ap.slice)
    IN [W EXCEPT !.arrays = ap.arrays,
                 !.groups = Append(@, n @@ GroupHist(ap.arrays, n, "Group", gi,
                                         mws, Chain(W.arrays, g)))]

\* One per-verb call as recorded in calls / last
Call(caller, method, path, supplied, delivered, endpoint, err, added) ==
    [caller |-> caller, method |-> method, path |-> path,
     supplied |-> supplied, delivered |-> delivered, endpoint |-> endpoint,
     err |-> err, added |-> added]

\* Server.Get/... called directly on the root
rootVerb(W, method, path, handlers) ==
    LET reg == serverVerb(W.routes, method, path, handlers)
    IN [W EXCEPT !.routes = reg.routes,
                 !.calls = Append(@, Call(Root, method, path, handlers,
                                handlers, path, reg.err,
                                Len(reg.routes) - Len(W.routes)))]

\* RouteGroup.Get/Post/Put/Patch/Delete.  The slice routeHandlers returns is
\* dropped when the call returns; what it wrote into the group's own backing
\* array stays.
groupVerb(W, gi, method, path, handlers) ==
    LET g == W.groups[gi]
        ap == routeHandlers(W.arrays, g, handlers)
        delivered == Elems(ap.arrays, ap.slice)
        endpoint == fullPath(g.basePath, path)
        reg == serverVerb(W.routes, method, endpoint, delivered)
    IN [W EXCEPT !.arrays = IF ap.slice.arr = g.middlewares.arr
                            THEN ap.arrays ELSE @,
                 !.routes = reg.routes,
                 !.calls = Append(@, Call(gi, method, path, handlers,
                                delivered, endpoint, reg.err,
                                Len(reg.routes) - Len(W.routes)))]

\* The body of a callback given to Route: its declarations, run in order on
\* the group it is handed.
RECURSIVE runFn(_, _, _)
runFn(W, gi, body) ==
    IF body = <<>> THEN W
    ELSE runFn(groupVerb(W, gi, body[1].method, body[1].path,
                         body[1].handlers),
               gi, Tail(body))

\* Server.Route
serverRoute(W, basePath, body) ==
    LET W1 == serverGroup(W, "Route", Root, basePath, <<>>)
        group == Len(W1.groups)
    IN runFn([W1 EXCEPT !.fns = Append(@, group)], group, body)

\* RouteGroup.Route: the group is made by g.server.Group, and g.server is
\* the root server
groupRoute(W, gi, basePath, body) ==
    LET g == W.groups[gi]
        W1 == serverGroup(W, "Route", gi, fullPath(g.basePath, basePath),
                          <<>>)
        group == Len(W1.groups)
    IN runFn([W1 EXCEPT !.fns = Append(@, group)], group, body)

----------------------------------------------------------------------------
(* Responses *)

defaultStatusCode == 200
StatusContinue == 100
StatusNetworkAuthenticationRequired == 511

HeaderKeys == {"Content-Type", "X-Middleware", "X-Content-Type-Options"}

\* An http.ResponseWriter nothing was written to.  hdr is the live header
\* map, sent the copy of it committed with the status line by WriteHeader.
FreshWriter ==
    [hdr |-> [k \in HeaderKeys |-> <<>>], wrote |-> FALSE, code |-> 0,
     sent |-> [k \in HeaderKeys |-> <<>>], body |-> <<>>]

\* http.ResponseWriter.WriteHeader: the first call commits the status code
\* and the headers set so far; a later call changes nothing.
WriteHeader(ws, id, code) ==
    IF ws[id].wrote THEN ws
    ELSE [ws EXCEPT ![id] =
             [@ EXCEPT !.wrote = TRUE, !.code = code,
                       !.sent = ws[id].hdr]]

\* http.ResponseWriter.Write: commits status 200 when nothing was committed
Write(ws, id, b) ==
    LET w1 == WriteHeader(ws, id, defaultStatusCode)
    IN [w1 EXCEPT ![id].body = @ \o b]

\* http.DetectContentType of a text body
DetectContentType(b) == "text/plain; charset=utf-8"

\* A Response is [res, statusCode]: res names its http.ResponseWriter in the
\* sequence ws of writers.  Each method gives the new [r, ws, err].
Step(r, ws) == [r |-> r, ws |-> ws, err |-> "nil"]

\* Response.Status
Status(r, ws, statusCode) == Step([r EXCEPT !.statusCode = statusCode], ws)

\* Response.SetHeader
SetHeader(r, ws, key, value) ==
    Step(r, [ws EXCEPT ![r.res].hdr[key] = <<value>>])

\* Mutant: only the lower limit is looked at
invalidStatusCode_NoUpperLimit(r) ==
    r.statusCode < StatusContinue

\* Response.invalidStatusCode
invalidStatusCode(r) ==
    r.statusCode < StatusContinue
        \/ r.statusCode > StatusNetworkAuthenticationRequired

\* Response.writeStatus
writeStatus(r, ws) ==
    IF ~invalidStatusCode(r) /\ r.statusCode # defaultStatusCode
    THEN Step(r, WriteHeader(ws, r.res, r.statusCode))
    ELSE Step(r, WriteHeader(ws, r.res, defaultStatusCode))

\* Response.Send
Send(r, ws, b) ==
    LET s1 == writeStatus(r, ws)
    IN IF Len(b) > 0
       THEN LET s2 == SetHeader(r, s1.ws, "Content-Type",
                                DetectContentType(b))
            IN Step(r, Write(s2.ws, r.res, b))
       ELSE s1

\* Response.SendStatus
SendStatus(r, ws, statusCode) ==
    writeStatus([r EXCEPT !.statusCode = statusCode], ws)

\* Response.JSON: data stands for the encoded payload
JSON(r, ws, data) ==
    LET ws1 == [ws EXCEPT ![r.res].hdr["Content-Type"] =
                              Append(@, "application/json")]
        r1 == IF invalidStatusCode(r)
              THEN [r EXCEPT !.statusCode = defaultStatusCode] ELSE r
    IN Step(r1, Write(WriteHeader(ws1, r1.res, r1.statusCode), r1.res, data))

----------------------------------------------------------------------------
(* Handler logic and the invocation of a canonical handler *)

\* Request{req: r} and Response{res: w}: the views a handler is given
NewRequest(req) == [req |-> req]

NewResponse(res) == [res |-> res, statusCode |-> 0]

\* NewContext
NewContext(ctx, req, res) ==
    [ctx |-> ctx, Request |-> NewRequest(req), Response |-> NewResponse(res)]

\* The bodies of the handler functions "a" .. "f", as calls on the request
\* and response views they are given
LogicIds == {"a", "b", "c", "d", "e", "f"}

Logic(fn, r, ws) ==
    CASE fn = "a" -> Send(r, ws, <<"Hello World">>)
      [] fn = "b" -> LET s1 == Status(r, ws, 201)
                     IN JSON(s1.r, s1.ws, <<"{\"username\":\"g\"}">>)
      [] fn = "c" -> SendStatus(r, ws, 500)
      [] fn = "d" -> SetHeader(r, ws, "X-Middleware", "processed")
      [] fn = "e" -> [Step(r, ws) EXCEPT !.err = "boom"]
      [] fn = "f" -> LET s1 == Status(r, ws, 999)
                     IN Send(s1.r, s1.ws, <<"x">>)
      [] fn = "g" -> [Step(r, ws) EXCEPT !.err = "json404"]
      [] fn = "h" -> [Step(r, ws) EXCEPT !.err = "html400"]
      [] fn = "i" -> [Step(r, ws) EXCEPT !.err = "nilErr"]
      [] fn = "j" -> [Step(r, ws) EXCEPT !.err = "html0"]
      [] fn = "k" -> [Send(r, ws, <<"partial">>) EXCEPT !.err = "boom"]
      [] fn = "l" -> [Step(r, ws) EXCEPT !.err = "json0"]
      [] fn = "m" -> [Step(r, ws) EXCEPT !.err = "nilPtr"]

\* What a call of a handler function gives: its error, the writers after
\* it, and the http request and writer its views referred to
Ran(s, request, response) ==
    [err |-> s.err, ws |-> s.ws, req |-> request.req, res |-> response.res]

\* Calling a nil function value panics
Panicked(ws) == [err |-> "panic", ws |-> ws, req |-> 0, res |-> 0]

\* HandlerWithContext.Handler(req, res)(req, res): a context is built from
\* the views of the call and the context function is called with it
ctxHandler(fn, request, response, ws) ==
    LET c == NewContext("ctx", request.req, response.res)
    IN IF fn = "nil" THEN Panicked(ws)
       ELSE Ran(Logic(fn, c.Response, ws), c.Request, c.Response)

\* The call of the canonical handler validateHandler returned
Invoke(handler, request, response, ws) ==
    CASE handler.wrap = "direct" ->
            IF handler.fn = "nil" THEN Panicked(ws)
            ELSE Ran(Logic(handler.fn, response, ws), request, response)
      [] handler.wrap = "ctxMethod" ->
            ctxHandler(handler.fn, request, response, ws)
      [] handler.wrap = "ctxConv" ->
            ctxHandler(handler.fn, request, response, ws)

----------------------------------------------------------------------------
(* The request boundary: errors returned by handlers, and the chain *)

\* The error values the handler bodies return.  A *ServerError is tagged;
\* ptr tells whether the pointer is nil; Err is <<>> for a nil error and
\* <<message>> otherwise.  A plain error has only its message.
ServerError(StatusCode, ContentType, Err) ==
    [tagged |-> TRUE, ptr |-> "set", StatusCode |-> StatusCode,
     ContentType |-> ContentType, Err |-> Err]

ErrorIds == {"boom", "json404", "html400", "nilErr", "html0", "json0",
             "nilPtr"}

ErrorValue(id) ==
    CASE id = "boom" ->
            [tagged |-> FALSE, ptr |-> "set", StatusCode |-> 0,
             ContentType |-> "", Err |-> <<"boom">>]
      [] id = "json404" ->
            ServerError(404, "application/json", <<"not found">>)
      [] id = "html400" -> ServerError(400, "text/html", <<"bad request">>)
      [] id = "nilErr" -> ServerError(400, "application/json", <<>>)
      [] id = "html0" -> ServerError(0, "text/html", <<"unset">>)
      [] id = "json0" -> ServerError(0, "application/json", <<"unset">>)
      [] id = "nilPtr" ->
            [tagged |-> TRUE, ptr |-> "nil", StatusCode |-> 0,
             ContentType |-> "", Err |-> <<>>]

StatusInternalServerError == 500

\* net/http checkWriteHeaderCode: WriteHeader panics on such a code, unless
\* the header was committed before (then the call is ignored)
checkWriteHeaderCode(ws, id, code) ==
    ~ws[id].wrote /\ (code < 100 \/ code > 999)

\* What the boundary did with an error is [ws, panic]: the writers after
\* it and whether the goroutine panicked on the way.

\* http.Error
httpError(ws, id, msg, code) ==
    LET ws1 == [ws EXCEPT
                   ![id].hdr["Content-Type"] = <<"text/plain; charset=utf-8">>,
                   ![id].hdr["X-Content-Type-Options"] = <<"nosniff">>]
    IN IF checkWriteHeaderCode(ws1, id, code) THEN [ws |-> ws1, panic |-> TRUE]
       ELSE [ws |-> Write(WriteHeader(ws1, id, code), id, <<msg, "\n">>),
             panic |-> FALSE]

\* JSON{"err": msg}.Bytes()
ErrBytes(msg) == <<"{\"err\":\"", msg, "\"}">>

\* ServerError.ServeHTTP
ServeHTTP(e, ws, id) ==
    IF e.Err # <<>>
    THEN LET ws1 == [ws EXCEPT ![id].hdr["Content-Type"] = <<e.ContentType>>]
         IN IF e.ContentType = "application/json"
            THEN LET ws2 == IF e.StatusCode >= 100
                            THEN WriteHeader(ws1, id, e.StatusCode)
                            ELSE ws1
                 IN IF e.StatusCode >= 100
                       /\ checkWriteHeaderCode(ws1, id, e.StatusCode)
                    THEN [ws |-> ws1, panic |-> TRUE]
                    ELSE [ws |-> Write(ws2, id, ErrBytes(e.Err[1])),
                          panic |-> FALSE]
            ELSE httpError(ws1, id, e.Err[1], e.StatusCode)
    ELSE [ws |-> ws, panic |-> FALSE]

\* The error branch of httpMiddleware and httpHandler.  err.Error() of a
\* nil *ServerError, and of a ServerError whose Err is nil, dereferences nil.
serveError(e, ws, id) ==
    IF e.tagged /\ e.ptr # "nil" THEN ServeHTTP(e, ws, id)
    ELSE IF e.tagged \/ e.Err = <<>> THEN [ws |-> ws, panic |-> TRUE]
    ELSE httpError(ws, id, e.Err[1], StatusInternalServerError)

\* A link of the chain Listen builds is [kind, idx, fn]: a middleware of
\* the route ("mw", with its index in route.middlewares) or the route's
\* handler ("h").

\* Mutant: each middleware is put inside what was built so far, so the
\* handler is the outermost
RECURSIVE Listen_HandlerOutermost(_, _, _)
Listen_HandlerOutermost(route, i, finalHandler) ==
    IF i < 1 THEN finalHandler
    ELSE Listen_HandlerOutermost(route, i - 1,
             finalHandler
                \o <<[kind |-> "mw", idx |-> i, fn |-> route.middlewares[i]]>>)

\* Server.Listen for one route: finalHandler starts as the route's handler
\* and each middleware, from the last to the first, is wrapped around it.
\* The result lists the closures in the order a request goes through them.
RECURSIVE Listen(_, _, _)
Listen(route, i, finalHandler) ==
    IF i < 1 THEN finalHandler
    ELSE Listen(route, i - 1,
                <<[kind |-> "mw", idx |-> i, fn |-> route.middlewares[i]]>>
                \o finalHandler)

\* The chain of a route as mounted on the mux
Mount(route) ==
    Listen(route, Len(route.middlewares),
           <<[kind |-> "h", idx |-> 0, fn |-> route.handler]>>)

\* httpMiddleware / httpHandler: the closure is called with the writer of
\* the request; it builds fresh views, calls the handler function, and on
\* an error writes the error response.  next tells whether the closure goes
\* on to the next one.
runClosure(link, ws) ==
    LET out == Invoke([wrap |-> "direct", fn |-> link.fn],
                      NewRequest(1), NewResponse(1), ws)
    IN IF out.err = "panic"
       THEN [ws |-> out.ws, err |-> "panic", panic |-> TRUE, next |-> FALSE,
             before |-> out.ws]
       ELSE IF out.err = "nil"
       THEN [ws |-> out.ws, err |-> "nil", panic |-> FALSE,
             next |-> link.kind = "mw", before |-> out.ws]
       ELSE LET sv == serveError(ErrorValue(out.err), out.ws, 1)
            IN [ws |-> sv.ws, err |-> out.err, panic |-> sv.panic,
                next |-> FALSE, before |-> out.ws]

\* One handler function supplied in each of the four shapes, normalised
\* and invoked with the same request and response: the result per shape
NotRun == [err |-> "not run", ws |-> <<>>, req |-> 0, res |-> 0]

IdleServe == [fn |-> "a", ws |-> <<>>, out |-> [t \in HandlerTypes |-> NotRun]]

----------------------------------------------------------------------------
(* Path parameters: strconv and Context.ParamsParser *)

\* Text is a sequence of one-character strings.  A number that was parsed is
\* kept as its decimal digits without leading zeros, after "-" if negative,
\* so that every width up to 64 bits is exact.
Digits == {"0", "1", "2", "3", "4", "5", "6", "7", "8", "9"}

DigitVal(c) == CHOOSE n \in 0..9 : <<"0", "1", "2", "3", "4", "5", "6", "7",
                                      "8", "9">>[n + 1] = c

IsDigits(s) == s # <<>> /\ \A i \in 1..Len(s) : s[i] \in Digits

RECURSIVE StripZeros(_)
StripZeros(d) ==
    IF Len(d) > 1 /\ d[1] = "0" THEN StripZeros(Tail(d)) ELSE d

\* a <= b for digit strings of the same length
RECURSIVE LexLeq(_, _)
LexLeq(a, b) ==
    IF a = <<>> THEN TRUE
    ELSE IF DigitVal(a[1]) < DigitVal(b[1]) THEN TRUE
    ELSE IF DigitVal(a[1]) > DigitVal(b[1]) THEN FALSE
    ELSE LexLeq(Tail(a), Tail(b))

\* a <= b for digit strings without leading zeros
LeqDigits(a, b) ==
    Len(a) < Len(b) \/ (Len(a) = Len(b) /\ LexLeq(a, b))

IntSize == 64

\* 2^bitSize - 1, 2^(bitSize-1) - 1 and 2^(bitSize-1) in decimal
MaxUint(bitSize) ==
    CASE bitSize = 8 -> <<"2", "5", "5">>
      [] bitSize = 16 -> <<"6", "5", "5", "3", "5">>
      [] bitSize = 32 -> 
            <<"4", "2", "9", "4", "9", "6", "7", "2", "9", "5">>
      [] bitSize = 64 -> 
            <<"1", "8", "4", "4", "6", "7", "4", "4", "0", "7", "3",
            "7", "0", "9", "5", "5", "1", "6", "1", "5">>

MaxInt(bitSize) ==
    CASE bitSize = 8 -> <<"1", "2", "7">>
      [] bitSize = 16 -> <<"3", "2", "7", "6", "7">>
      [] bitSize = 32 -> 
            <<"2", "1", "4", "7", "4", "8", "3", "6", "4", "7">>
      [] bitSize = 64 -> 
            <<"9", "2", "2", "3", "3", "7", "2", "0", "3", "6", "8",
            "5", "4", "7", "7", "5", "8", "0", "7">>

Cutoff(bitSize) ==
    CASE bitSize = 8 -> <<"1", "2", "8">>
      [] bitSize = 16 -> <<"3", "2", "7", "6", "8">>
      [] bitSize = 32 -> 
            <<"2", "1", "4", "7", "4", "8", "3", "6", "4", "8">>
      [] bitSize = 64 -> 
            <<"9", "2", "2", "3", "3", "7", "2", "0", "3", "6", "8",
            "5", "4", "7", "7", "5", "8", "0", "8">>

\* The result of a strconv call: ok, and the value as text
Parsed(v) == [ok |-> TRUE, v |-> v]

ParseFail == [ok |-> FALSE, v |-> <<>>]

\* strconv.ParseUint(s, 10, bitSize)
ParseUint(s, bitSize) ==
    LET bits == IF bitSize = 0 THEN IntSize ELSE bitSize
    IN IF ~IsDigits(s) THEN ParseFail
       ELSE IF ~LeqDigits(StripZeros(s), MaxUint(bits)) THEN ParseFail
       ELSE Parsed(StripZeros(s))

\* Mutant: the bit size is not looked at, every width parses as 64 bits
ParseInt_AnyWidth(s, bitSize) ==
    LET neg == s # <<>> /\ s[1] = "-"
        rest == IF s # <<>> /\ s[1] \in {"+", "-"} THEN Tail(s) ELSE s
        un == ParseUint(rest, 64)
    IN IF ~IsDigits(rest) THEN ParseFail
       ELSE IF ~neg /\ ~LeqDigits(StripZeros(rest), MaxInt(64)) THEN ParseFail
       ELSE IF neg /\ ~LeqDigits(StripZeros(rest), Cutoff(64)) THEN ParseFail
       ELSE IF neg /\ un.v # <<"0">> THEN Parsed(<<"-">> \o un.v)
       ELSE Parsed(un.v)

\* strconv.ParseInt(s, 10, bitSize)
ParseInt(s, bitSize) ==
    LET bits == IF bitSize = 0 THEN IntSize ELSE bitSize
        neg == s # <<>> /\ s[1] = "-"
        rest == IF s # <<>> /\ s[1] \in {"+", "-"} THEN Tail(s) ELSE s
        un == ParseUint(rest, bits)
    IN IF ~IsDigits(rest) THEN ParseFail
       ELSE IF ~neg /\ ~LeqDigits(StripZeros(rest), MaxInt(bits))
       THEN ParseFail
       ELSE IF neg /\ ~LeqDigits(StripZeros(rest), Cutoff(bits))
       THEN ParseFail
       ELSE IF neg /\ StripZeros(rest) # <<"0">>
       THEN Parsed(<<"-">> \o StripZeros(rest))
       ELSE Parsed(StripZeros(rest))

\* strconv.Atoi
Atoi(s) == ParseInt(s, 0)

\* strconv.ParseBool
ParseBool(s) ==
    IF s \in {<<"1">>,
              <<"t">>,
              <<"T">>,
              <<"T", "R", "U", "E">>,
              <<"t", "r", "u", "e">>,
              <<"T", "r", "u", "e">>}
    THEN Parsed(<<"true">>)
    ELSE IF s \in {<<"0">>,
                   <<"f">>,
                   <<"F">>,
                   <<"F", "A", "L", "S", "E">>,
                   <<"f", "a", "l", "s", "e">>,
                   <<"F", "a", "l", "s", "e">>}
    THEN Parsed(<<"false">>)
    ELSE ParseFail

\* The position of the first c in s, or 0
FirstOf(s, c) ==
    IF \E i \in 1..Len(s) : s[i] = c
    THEN CHOOSE i \in 1..Len(s) : s[i] = c /\ \A j \in 1..(i - 1) : s[j] # c
    ELSE 0

\* The number a short digit string denotes
RECURSIVE ToNat(_, _)
ToNat(d, acc) ==
    IF d = <<>> THEN acc ELSE ToNat(Tail(d), 10 * acc + DigitVal(d[1]))

\* Largest decimal exponent of a finite value, and the digits of the least
\* value of that exponent that rounds to infinity
MaxExp10(bitSize) == IF bitSize = 32 THEN 38 ELSE 308

Overflow10(bitSize) ==
    IF bitSize = 32 THEN 
            <<"3", "4", "0", "2", "8", "2", "3", "5", "6", "7", "7",
            "9", "7", "3", "3", "6", "6">>
    ELSE 
            <<"1", "7", "9", "7", "6", "9", "3", "1", "3", "4", "8",
            "6", "2", "3", "1", "5", "8">>

\* a < b for digit strings read as fractions 0.a and 0.b
RECURSIVE FracLess(_, _)
FracLess(a, b) ==
    IF b = <<>> THEN FALSE
    ELSE IF a = <<>> THEN \E i \in 1..Len(b) : b[i] # "0"
    ELSE IF DigitVal(a[1]) < DigitVal(b[1]) THEN TRUE
    ELSE IF DigitVal(a[1]) > DigitVal(b[1]) THEN FALSE
    ELSE FracLess(Tail(a), Tail(b))

\* strconv.ParseFloat(s, bitSize) for decimal literals
\* [sign] digits [. digits] [e [sign] digits], read in stages.
\* Last stage: the value is 0.sig * 10^point with sig starting at a
\* non-zero digit; it is finite when it rounds below the overflow limit.
floatFinite(sig, point, s, bitSize) ==
    IF point - 1 > MaxExp10(bitSize) THEN ParseFail
    ELSE IF point - 1 = MaxExp10(bitSize)
              /\ ~FracLess(sig, Overflow10(bitSize))
    THEN ParseFail
    ELSE Parsed(s)

\* The position of the first non-zero digit, or 0
LeadPos(all) ==
    IF \E i \in 1..Len(all) : all[i] # "0"
    THEN CHOOSE i \in 1..Len(all) :
            all[i] # "0" /\ \A j \in 1..(i - 1) : all[j] = "0"
    ELSE 0

\* all: the digits of the mantissa, intLen of them before the point
floatValue(all, lead, intLen, ev, s, bitSize) ==
    IF lead = 0 THEN Parsed(s)
    ELSE floatFinite(SubSeq(all, lead, Len(all)), ev + intLen - (lead - 1),
                     s, bitSize)

\* The exponent as a number (beyond four digits: past every range)
ExpValue(eneg, edig) ==
    LET ev == IF edig = <<>> THEN 0
              ELSE IF Len(StripZeros(edig)) > 4 THEN 10000
              ELSE ToNat(StripZeros(edig), 0)
    IN IF eneg THEN 0 - ev ELSE ev

floatCheck(int, frac, hasExp, eneg, edig, s, bitSize) ==
    IF /\ (int # <<>> \/ frac # <<>>)
       /\ (int = <<>> \/ IsDigits(int))
       /\ (frac = <<>> \/ IsDigits(frac))
       /\ (~hasExp \/ IsDigits(edig))
    THEN floatValue((IF int = <<>> THEN <<>> ELSE StripZeros(int)) \o frac,
                    LeadPos((IF int = <<>> THEN <<>> ELSE StripZeros(int))
                            \o frac),
                    IF int = <<>> THEN 0 ELSE Len(StripZeros(int)),
                    ExpValue(eneg, edig), s, bitSize)
    ELSE ParseFail

floatParts(mant, dot, expo, hasExp, s, bitSize) ==
    floatCheck(IF dot = 0 THEN mant ELSE SubSeq(mant, 1, dot - 1),
               IF dot = 0 THEN <<>> ELSE SubSeq(mant, dot + 1, Len(mant)),
               hasExp,
               expo # <<>> /\ expo[1] = "-",
               IF expo # <<>> /\ expo[1] \in {"+", "-"} THEN Tail(expo)
               ELSE expo,
               s, bitSize)

floatSplit(body, e, s, bitSize) ==
    floatParts(IF e = 0 THEN body ELSE SubSeq(body, 1, e - 1),
               FirstOf(IF e = 0 THEN body ELSE SubSeq(body, 1, e - 1), "."),
               IF e = 0 THEN <<>> ELSE SubSeq(body, e + 1, Len(body)),
               e # 0, s, bitSize)

\* The position of the exponent mark, or 0
ExpMark(body) ==
    IF FirstOf(body, "e") # 0 THEN FirstOf(body, "e") ELSE FirstOf(body, "E")

ParseFloat(s, bitSize) ==
    floatSplit(IF s # <<>> /\ s[1] \in {"+", "-"} THEN Tail(s) ELSE s,
               ExpMark(IF s # <<>> /\ s[1] \in {"+", "-"} THEN Tail(s)
                       ELSE s),
               s, bitSize)

\* The kinds of the fields of a destination structure
IntKinds == {"int", "int8", "int16", "int32", "int64"}

UintKinds == {"uint", "uint8", "uint16", "uint32", "uint64"}

FloatKinds == {"float32", "float64"}

OtherKinds == {"slice", "struct", "uintptr"}

Kinds == {"string", "bool"} \cup IntKinds \cup UintKinds \cup FloatKinds
            \cup OtherKinds

\* The bit size each case of the switch passes to strconv
BitSize(kind) ==
    CASE kind \in {"int", "uint"} -> 0
      [] kind \in {"int8", "uint8"} -> 8
      [] kind \in {"int16", "uint16"} -> 16
      [] kind \in {"int32", "uint32", "float32"} -> 32
      [] kind \in {"int64", "uint64", "float64"} -> 64

\* A field of the destination: its declared name, its `param` tag ("" when
\* it has none), its kind, whether it can be set, and its value.  A value
\* is the one the field had before the call, or one a segment gave it.
Field(name, tag, kind, settable) ==
    [name |-> name, tag |-> tag, kind |-> kind, settable |-> settable,
     value |-> [from |-> "before", v |-> <<>>]]

\* The captured segments are a sequence of [name, value], in the order of
\* the groups of the pattern.
\* params[name]: the value of the last group of that name
Captured(params, name) == \E i \in 1..Len(params) : params[i].name = name

Lookup(params, name) ==
    LET i == CHOOSE i \in 1..Len(params) :
                /\ params[i].name = name
                /\ \A j \in (i + 1)..Len(params) : params[j].name # name
    IN params[i].value

\* Mutant: the tag is not looked at
paramName_NameOnly(field) == field.name

\* The key a field is looked up by
paramName(field) == IF field.tag = "" THEN field.name ELSE field.tag

NoParamErr == [kind |-> "nil", value |-> <<>>, target |-> ""]

ConvertErr(value, target) ==
    [kind |-> "convert", value |-> value, target |-> target]

UnsupportedErr(kind) ==
    [kind |-> "unsupported", value |-> <<>>, target |-> kind]

\* The switch on field.Kind(): the field after it and the error
setField(field, paramValue) ==
    LET r == CASE field.kind = "string" -> Parsed(paramValue)
               [] field.kind = "int" -> Atoi(paramValue)
               [] field.kind \in IntKinds \ {"int"} ->
                     ParseInt(paramValue, BitSize(field.kind))
               [] field.kind \in UintKinds ->
                     ParseUint(paramValue, BitSize(field.kind))
               [] field.kind \in FloatKinds ->
                     ParseFloat(paramValue, BitSize(field.kind))
               [] field.kind = "bool" -> ParseBool(paramValue)
               [] OTHER -> ParseFail
    IN IF field.kind \in OtherKinds
       THEN [field |-> field, err |-> UnsupportedErr(field.kind)]
       ELSE IF ~r.ok
       THEN [field |-> field, err |-> ConvertErr(paramValue, field.kind)]
       ELSE [field |-> [field EXCEPT !.value = [from |-> "segment",
                                                v |-> r.v]],
             err |-> NoParamErr]

\* Mutant: a failure is remembered and the loop goes on to the next fields
RECURSIVE parseFields_KeepGoing(_, _, _)
parseFields_KeepGoing(params, dest, i) ==
    IF i > Len(dest) THEN [dest |-> dest, err |-> NoParamErr]
    ELSE LET field == dest[i]
             name == paramName(field)
         IN IF ~Captured(params, name) \/ ~field.settable
            THEN parseFields_KeepGoing(params, dest, i + 1)
            ELSE LET st == setField(field, Lookup(params, name))
                     rest == parseFields_KeepGoing(params,
                                 [dest EXCEPT ![i] = st.field], i + 1)
                 IN IF st.err # NoParamErr
                    THEN [dest |-> rest.dest, err |-> st.err]
                    ELSE rest

\* The loop of ParamsParser over the fields, from field i on
RECURSIVE parseFields(_, _, _)
parseFields(params, dest, i) ==
    IF i > Len(dest) THEN [dest |-> dest, err |-> NoParamErr]
    ELSE LET field == dest[i]
             name == paramName(field)
         IN IF ~Captured(params, name) \/ ~field.settable
            THEN parseFields(params, dest, i + 1)
            ELSE LET st == setField(field, Lookup(params, name))
                 IN IF st.err # NoParamErr
                    THEN [dest |-> dest, err |-> st.err]
                    ELSE parseFields(params, [dest EXCEPT ![i] = st.field],
                                     i + 1)

\* Context.ParamsParser, given the segments the pattern captured
ParamsParser(params, dest) == parseFields(params, dest, 1)

\* No request, no ParamsParser call and no Response under observation
IdleExchange == [status |-> "idle"]

IdleParse == [status |-> "idle", params |-> <<>>, before |-> <<>>,
              dest |-> <<>>, err |-> NoParamErr]

IdleReply == [status |-> "idle", r |-> NewResponse(1), ws |-> <<>>,
              set |-> <<>>, op |-> "none", body |-> <<>>]

IdleStream == [status |-> "idle"]

----------------------------------------------------------------------------
(* Inputs *)

hA == Val("Handler", "a")
cB == Val("HandlerWithContext", "b")
fC == Val("func2", "c")
xD == Val("funcCtx", "d")
bad == Val("string", "nil")        \* a value that is no handler at all

\* Middleware lists given to Group
GroupArgs == { <<>>, <<bad>>, <<fC>>, <<hA, cB>> }

Decl(method, path, handlers) ==
    [method |-> method, path |-> path, handlers |-> handlers]

\* Per-verb calls: one per verb
VerbCalls ==
    { Decl("GET", <<Sep, "x">>, <<>>),
      Decl("POST", <<Sep, "x">>, <<xD>>),
      Decl("PUT", <<Sep, "x">>, <<fC, hA>>),
      Decl("PATCH", <<Sep, "x">>, <<UntypedNil>>),
      Decl("DELETE", <<Sep, "x">>, <<bad, hA>>) }

\* Bodies of the callbacks given to Route
FnBodies ==
    { <<>>,
      <<Decl("GET", <<Sep, "y">>, <<xD>>)>>,
      <<Decl("POST", <<Sep, "y">>, <<>>), Decl("GET", <<Sep>>, <<fC, hA>>)>> }

GroupPaths == { <<Sep, "v1">> }

\* A path segment with or without a leading and a trailing slash
Decorate(name, lead, trail) ==
    (IF lead THEN <<Sep>> ELSE <<>>) \o <<name>>
        \o (IF trail THEN <<Sep>> ELSE <<>>)

Variants(name) == { Decorate(name, l, t) : l \in BOOLEAN, t \in BOOLEAN }

SeqsUpTo(S, n) == UNION { [1..k -> S] : k \in 0..n }

BatchValues == { hA, cB, fC, xD, bad, UntypedNil, Val("Handler", "nil"),
                 Val("func2", "nil") }

----------------------------------------------------------------------------
(* Actions *)

NoCall == [op |-> "none", caller |-> Root, path |-> <<>>, calls |-> <<>>,
           fns |-> <<>>]

IdleBatch == [handlers |-> <<>>, done |-> TRUE, res |-> registerHandlers(<<>>)]

Commit(W, op, caller, path) ==
    /\ arrays' = W.arrays
    /\ groups' = W.groups
    /\ routes' = W.routes
    /\ last' = [op |-> op, caller |-> caller, path |-> path,
                calls |-> W.calls, fns |-> W.fns]
    /\ UNCHANGED <<segs, batch, serve, exchange, parse, reply, stream>>

ServerGroup(basePath, mws) ==
    /\ Len(groups) < MaxGroups
    /\ Commit(serverGroup(World, "Group", Root, basePath, mws),
              "Group", Root, basePath)

GroupGroup(gi, basePath, mws) ==
    /\ Len(groups) < MaxGroups
    /\ gi \in 1..Len(groups)
    /\ Commit(groupGroup(World, gi, basePath, mws), "Group", gi, basePath)

ServerRoute(basePath, body) ==
    /\ Len(groups) < MaxGroups
    /\ Len(routes) + Len(body) <= MaxRoutes
    /\ Commit(serverRoute(World, basePath, body), "Route", Root, basePath)

GroupRoute(gi, basePath, body) ==
    /\ Len(groups) < MaxGroups
    /\ Len(routes) + Len(body) <= MaxRoutes
    /\ gi \in 1..Len(groups)
    /\ Commit(groupRoute(World, gi, basePath, body), "Route", gi, basePath)

ServerVerb(method, path, handlers) ==
    /\ Len(routes) < MaxRoutes
    /\ Commit(rootVerb(World, method, path, handlers), "Verb", Root, path)

GroupVerb(gi, method, path, handlers) ==
    /\ Len(routes) < MaxRoutes
    /\ gi \in 1..Len(groups)
    /\ Commit(groupVerb(World, gi, method, path, handlers), "Verb", gi, path)

RegisterHandlers ==
    /\ ~batch.done
    /\ batch' = [batch EXCEPT !.done = TRUE,
                              !.res = registerHandlers(batch.handlers)]
    /\ UNCHANGED <<arrays, groups, routes, last, segs, serve, exchange, parse,
                   reply, stream>>

----------------------------------------------------------------------------
(* Specifications *)

InitServer ==
    /\ arrays = <<>>
    /\ groups = <<>>
    /\ routes = <<>>
    /\ last = NoCall

\* Registration phase: any program of Group, Route and per-verb calls
Init ==
    /\ InitServer
    /\ segs = <<>>
    /\ batch = IdleBatch
    /\ serve = IdleServe
    /\ exchange = IdleExchange
    /\ parse = IdleParse
    /\ reply = IdleReply
    /\ stream = IdleStream

Next ==
    \/ \E p \in GroupPaths, m \in GroupArgs : ServerGroup(p, m)
    \/ \E gi \in 1..Len(groups), p \in GroupPaths, m \in GroupArgs :
          GroupGroup(gi, p, m)
    \/ \E p \in GroupPaths, b \in FnBodies : ServerRoute(p, b)
    \/ \E gi \in 1..Len(groups), p \in GroupPaths, b \in FnBodies :
          GroupRoute(gi, p, b)
    \/ \E c \in VerbCalls : ServerVerb(c.method, c.path, c.handlers)
    \/ \E gi \in 1..Len(groups), c \in VerbCalls :
          GroupVerb(gi, c.method, c.path, c.handlers)

Spec == Init /\ [][Next]_vars

\* Path composition: three path arguments composed through Server.Group (or
\* Server.Route), RouteGroup.Group (or RouteGroup.Route) and a per-verb call
JoinArgs ==
    Variants("account") \cup Variants("profile") \cup Variants(":name")
        \cup { <<>>, <<Sep>> }

InitJoin ==
    /\ InitServer
    /\ segs \in JoinArgs \X JoinArgs \X JoinArgs
    /\ batch = IdleBatch
    /\ serve = IdleServe
    /\ exchange = IdleExchange
    /\ parse = IdleParse
    /\ reply = IdleReply
    /\ stream = IdleStream

NextJoin ==
    \/ Len(groups) = 0 /\ ServerGroup(segs[1], <<>>)
    \/ Len(groups) = 0 /\ ServerRoute(segs[1], <<>>)
    \/ Len(groups) = 1 /\ GroupGroup(1, segs[2], <<>>)
    \/ Len(groups) = 1 /\ last.op = "Group"
          /\ \E m \in Methods :
                GroupRoute(1, segs[2], <<Decl(m, segs[3], <<hA>>)>>)
    \/ Len(groups) = 2 /\ last.op = "Group"
          /\ \E m \in Methods : GroupVerb(2, m, segs[3], <<hA>>)

SpecJoin == InitJoin /\ [][NextJoin]_vars

\* registerHandlers applied to every short list of handler values
InitBatch ==
    /\ InitServer
    /\ segs = <<>>
    /\ batch \in { [handlers |-> hs, done |-> FALSE,
                    res |-> registerHandlers(<<>>)] :
                   hs \in SeqsUpTo(BatchValues, MaxBatch) }
    /\ serve = IdleServe
    /\ exchange = IdleExchange
    /\ parse = IdleParse
    /\ reply = IdleReply
    /\ stream = IdleStream

NextBatch == RegisterHandlers

SpecBatch == InitBatch /\ [][NextBatch]_vars

----------------------------------------------------------------------------
(* Specification of one handler logic invoked in every shape *)

\* Writers as a request reaches a handler: untouched, or with a header set
\* by a middleware that ran before
ServeWriters ==
    { FreshWriter,
      [FreshWriter EXCEPT !.hdr["X-Middleware"] = <<"processed">>] }

TheRequest == 1
TheWriter == 1

InvokeShape(t) ==
    /\ serve.out[t] = NotRun
    /\ LET v == validateHandler(Val(t, serve.fn))
       IN serve' = [serve EXCEPT !.out[t] =
                       Invoke(v.handler, NewRequest(TheRequest),
                              NewResponse(TheWriter), serve.ws)]
    /\ UNCHANGED <<arrays, groups, routes, last, segs, batch, exchange, parse,
                   reply, stream>>

InitServe ==
    /\ InitServer
    /\ segs = <<>>
    /\ batch = IdleBatch
    /\ serve \in { [fn |-> f, ws |-> <<w>>,
                    out |-> [t \in HandlerTypes |-> NotRun]] :
                   f \in LogicIds, w \in ServeWriters }
    /\ exchange = IdleExchange
    /\ parse = IdleParse
    /\ reply = IdleReply
    /\ stream = IdleStream

NextServe == \E t \in HandlerTypes : InvokeShape(t)

SpecServe == InitServe /\ [][NextServe]_vars

----------------------------------------------------------------------------
(* Specification of one request served by a mounted route *)

\* Bodies of the middlewares and of the terminal handlers of the routes
MwBodies == {"d", "a", "e", "g", "nil"}

HandlerBodies == {"a", "b", "c", "e", "g", "h", "i", "j", "k", "l", "m"}

\* A request arrives at the route: nothing ran, nothing was written
NewExchange(route) ==
    [status |-> "serving", route |-> route, chain |-> Mount(route), pc |-> 1,
     ws |-> <<FreshWriter>>, trace |-> <<>>, outs |-> <<>>,
     before |-> <<FreshWriter>>, panic |-> FALSE]

\* The closure at pc is entered
Enter(kind) ==
    /\ exchange.status = "serving"
    /\ exchange.pc <= Len(exchange.chain)
    /\ exchange.chain[exchange.pc].kind = kind
    /\ LET link == exchange.chain[exchange.pc]
           c == runClosure(link, exchange.ws)
       IN exchange' =
             [exchange EXCEPT
                 !.ws = c.ws,
                 !.trace = Append(@, [kind |-> link.kind, idx |-> link.idx]),
                 !.outs = Append(@, c.err),
                 !.before = c.before,
                 !.panic = c.panic,
                 !.pc = @ + 1,
                 !.status = IF c.next THEN "serving" ELSE "done"]
    /\ UNCHANGED <<arrays, groups, routes, last, segs, batch, serve, parse,
                   reply, stream>>

HttpMiddleware == Enter("mw")

HttpHandler == Enter("h")

InitExchange ==
    /\ InitServer
    /\ segs = <<>>
    /\ batch = IdleBatch
    /\ serve = IdleServe
    /\ parse = IdleParse
    /\ reply = IdleReply
    /\ stream = IdleStream
    /\ exchange \in { NewExchange([pattern |-> <<"GET", " ", Sep, "x">>,
                                   handler |-> h, middlewares |-> ms]) :
                      h \in HandlerBodies, ms \in SeqsUpTo(MwBodies, MaxChain) }

NextExchange == HttpMiddleware \/ HttpHandler

SpecExchange == InitExchange /\ [][NextExchange]_vars

----------------------------------------------------------------------------
(* Specification of one call of ParamsParser *)

\* The segments a request path may carry for a parameter
SegValues ==
    { <<"4", "2">>,
      <<"3", "0", "0">>,
      <<"-", "1">>,
      <<"-", "0">>,
      <<"1", "2", "7">>,
      <<"1", "2", "8">>,
      <<"-", "1", "2", "8">>,
      <<"-", "1", "2", "9">>,
      <<"a", "b", "c">>,
      <<"t", "r", "u", "e">>,
      <<"1", ".", "5">>,
      <<"1", "e", "3", "9">>,
      <<"+", "7">>,
      <<"0", "0", "7">>,
      <<"6", "5", "5", "3", "6">>,
      <<"4", "2", "9", "4", "9", "6", "7", "2", "9", "6">>,
      <<"9", "2", "2", "3", "3", "7", "2", "0", "3", "6", "8", "5", "4", "7", "7", "5", "8", "0", "8">>,
      <<"1", "8", "4", "4", "6", "7", "4", "4", "0", "7", "3", "7", "0", "9", "5", "5", "1", "6", "1", "6">> }

\* Fields a destination structure may declare: one of every kind tagged
\* `param:"id"` (named after its kind), two resolved by their declared name,
\* two whose key no pattern captures, and two unexported ones
FieldChoices ==
    { Field(k, "id", k, TRUE) : k \in Kinds }
        \cup { Field("Name", "", "string", TRUE),
               Field("Count", "", "int8", TRUE),
               Field("Other", "zz", "int8", TRUE),
               Field("Extra", "zz", "slice", TRUE),
               Field("secret", "id", "int8", FALSE),
               Field("hidden", "id", "slice", FALSE) }

Destinations ==
    { d \in SeqsUpTo(FieldChoices, MaxFields) :
         \A i \in 1..Len(d), j \in 1..Len(d) :
             i # j => d[i].name # d[j].name }

ParamLists ==
    { <<[name |-> "id", value |-> v]>> : v \in SegValues }
        \cup { <<>>,
               <<[name |-> "Name", value |-> <<"a", "b", "c">>]>>,
               <<[name |-> "id", value |-> <<"4", "2">>],
                 [name |-> "Name", value |-> <<"3", "0", "0">>],
                 [name |-> "Count", value |-> <<"3", "0", "0">>]>> }

CallParamsParser ==
    /\ parse.status = "ready"
    /\ LET r == ParamsParser(parse.params, parse.dest)
       IN parse' = [parse EXCEPT !.status = "done", !.dest = r.dest,
                                 !.err = r.err]
    /\ UNCHANGED <<arrays, groups, routes, last, segs, batch, serve, exchange,
                   reply, stream>>

InitParams ==
    /\ InitServer
    /\ segs = <<>>
    /\ batch = IdleBatch
    /\ serve = IdleServe
    /\ exchange = IdleExchange
    /\ reply = IdleReply
    /\ stream = IdleStream
    /\ parse \in { [status |-> "ready", params |-> ps, before |-> d,
                    dest |-> d, err |-> NoParamErr] :
                   ps \in ParamLists, d \in Destinations }

NextParams == CallParamsParser

SpecParams == InitParams /\ [][NextParams]_vars

----------------------------------------------------------------------------
(* Specification of one Response and the calls a handler makes on it *)

\* Status codes a handler may set
StatusCodes == {-1, 0, 99, 100, 201, 404, 511, 512, 999}

\* One call on the Response that writes, after which the handler returns
Wrote(s, op, set, body) ==
    /\ reply' = [reply EXCEPT !.status = "done", !.r = s.r, !.ws = s.ws,
                              !.set = set, !.op = op, !.body = body]
    /\ UNCHANGED <<arrays, groups, routes, last, segs, batch, serve, exchange,
                   parse, stream>>

ReplyStatus(statusCode) ==
    /\ reply.status = "open"
    /\ Len(reply.set) < MaxSets
    /\ LET s == Status(reply.r, reply.ws, statusCode)
       IN reply' = [reply EXCEPT !.r = s.r, !.ws = s.ws,
                                 !.set = Append(@, statusCode)]
    /\ UNCHANGED <<arrays, groups, routes, last, segs, batch, serve, exchange,
                   parse, stream>>

ReplySend(b) ==
    /\ reply.status = "open"
    /\ Wrote(Send(reply.r, reply.ws, b), "Send", reply.set, b)

ReplySendStatus(statusCode) ==
    /\ reply.status = "open"
    /\ Wrote(SendStatus(reply.r, reply.ws, statusCode), "SendStatus",
             Append(reply.set, statusCode), <<>>)

ReplyJSON ==
    /\ reply.status = "open"
    /\ Wrote(JSON(reply.r, reply.ws, <<"{}">>), "JSON", reply.set, <<"{}">>)

InitReply ==
    /\ InitServer
    /\ segs = <<>>
    /\ batch = IdleBatch
    /\ serve = IdleServe
    /\ exchange = IdleExchange
    /\ parse = IdleParse
    /\ reply = [status |-> "open", r |-> NewResponse(1),
                ws |-> <<FreshWriter>>, set |-> <<>>, op |-> "none",
                body |-> <<>>]
    /\ stream = IdleStream

NextReply ==
    \/ \E c \in StatusCodes : ReplyStatus(c)
    \/ \E b \in { <<>>, <<"Hello World">> } : ReplySend(b)
    \/ \E c \in StatusCodes : ReplySendStatus(c)
    \/ ReplyJSON

SpecReply == InitReply /\ [][NextReply]_vars

-----------------------------------------------------------------------------
(* SpecStream: the body stream of one incoming request and the reads made   *)
(* of it.  The *http.Request is shared by every Request wrapper built       *)
(* around it (the boundary builds one per middleware and one for the        *)
(* handler), so the stream is one record and the wrapper is only named in   *)
(* the log.  content is what the client sent, unread what is still in the   *)
(* stream, closed whether the stream was closed, parsed whether the         *)
(* request's multipart form was already read and cached.  A multipart body  *)
(* that is not empty is taken to be a well-formed form holding the file     *)
(* asked for.                                                               *)

\* Request.Body: io.ReadAll of the stream with the error dropped, the
\* deferred Close, and a new buffer over the bytes read.  A closed stream
\* yields an error and no bytes; a drained one yields no bytes.
Body_Rewinds(req) ==
    [req |-> req, buf |-> IF req.closed THEN <<>> ELSE req.unread]

Body(req) ==
    [req |-> [req EXCEPT !.unread = <<>>, !.closed = TRUE],
     buf |-> IF req.closed THEN <<>> ELSE req.unread]

\* r.Body() called through wrapper w.
RequestBody(w) ==
    /\ stream.status = "open"
    /\ Len(stream.log) < MaxCalls
    /\ stream' = [stream EXCEPT
                    !.req = Body(stream.req).req,
                    !.log = Append(@, [op |-> "Body", by |-> w,
                                       got |-> Body(stream.req).buf,
                                       err |-> FALSE])]
    /\ UNCHANGED <<arrays, groups, routes, last, segs, batch, serve, exchange,
                   parse, reply>>

\* c.Body(): the bytes of the buffer Request.Body returned; the deferred
\* Reset truncates the buffer after the result slice was taken, so the
\* slice handed back keeps its length and content.
ContextBody ==
    /\ stream.status = "open"
    /\ Len(stream.log) < MaxCalls
    /\ stream' = [stream EXCEPT
                    !.req = Body(stream.req).req,
                    !.log = Append(@, [op |-> "Context.Body", by |-> 0,
                                       got |-> Body(stream.req).buf,
                                       err |-> FALSE])]
    /\ UNCHANGED <<arrays, groups, routes, last, segs, batch, serve, exchange,
                   parse, reply>>

\* c.FormFile(key): http.Request.FormFile.  A cached form answers without
\* reading; otherwise a request that is not multipart fails untouched, and
\* a multipart one has its form read straight off the stream, which fails
\* on a closed or drained stream and otherwise drains it and caches the
\* form.  The stream is not closed by it.
FormFile ==
    /\ stream.status = "open"
    /\ Len(stream.log) < MaxCalls
    /\ stream' =
         IF stream.req.parsed
         THEN [stream EXCEPT !.log = Append(@, [op |-> "FormFile", by |-> 0,
                                                got |-> <<>>, err |-> FALSE])]
         ELSE IF \/ stream.req.contentType # "multipart/form-data"
                 \/ stream.req.closed
                 \/ stream.req.unread = <<>>
         THEN [stream EXCEPT !.log = Append(@, [op |-> "FormFile", by |-> 0,
                                                got |-> <<>>, err |-> TRUE])]
         ELSE [stream EXCEPT !.req.unread = <<>>,
                             !.req.parsed = TRUE,
                             !.log = Append(@, [op |-> "FormFile", by |-> 0,
                                                got |-> <<>>, err |-> FALSE])]
    /\ UNCHANGED <<arrays, groups, routes, last, segs, batch, serve, exchange,
                   parse, reply>>

InitStream ==
    /\ InitServer
    /\ segs = <<>>
    /\ batch = IdleBatch
    /\ serve = IdleServe
    /\ exchange = IdleExchange
    /\ parse = IdleParse
    /\ reply = IdleReply
    /\ stream \in { [status |-> "open", content |-> b, log |-> <<>>,
                     req |-> [contentType |-> ct, unread |-> b,
                              closed |-> FALSE, parsed |-> FALSE]] :
                    b \in { <<>>, <<"test body">>, <<"part", "file">> },
                    ct \in { "application/json", "multipart/form-data" } }

NextStream ==
    \/ \E w \in 1..2 : RequestBody(w)
    \/ ContextBody
    \/ FormFile

SpecStream == InitStream /\ [][NextStream]_vars

----------------------------------------------------------------------------
(* Properties of route groups *)

Valid(h) == validateHandler(h).err = NoErr

\* The group and all its ancestors were made by Group calls (none by Route)
RECURSIVE GroupOnly(_)
GroupOnly(g) ==
    /\ groups[g].how = "Group"
    /\ groups[g].parent # Root => GroupOnly(groups[g].parent)

\* The middlewares given to the group's ancestors and to the group itself,
\* outermost first
RECURSIVE Supplied(_)
Supplied(g) ==
    IF groups[g].parent = Root THEN groups[g].own
    ELSE Supplied(groups[g].parent) \o groups[g].own

LastOf(s) == s[Len(s)]

\* C1: a route registered through a group made by nested Group calls is
\* delivered to the root server with the middlewares of the outermost group
\* first, then those of each nested group, then the handlers supplied to the
\* call in their order; the terminal handler supplied is the last element.
C1_ChainOuterToInner ==
    \A k \in 1..Len(last.calls) :
        LET c == last.calls[k]
        IN (c.caller # Root /\ GroupOnly(c.caller)) =>
              /\ c.delivered = Supplied(c.caller) \o c.supplied
              /\ c.supplied # <<>> => LastOf(c.delivered) = LastOf(c.supplied)

\* C2: no group is changed after it was created: every group still shows the
\* chain it had at creation, whatever Group and per-verb calls came after,
\* and a route registered through it gets that chain before its handlers.
C2_GroupsNeverMutated ==
    /\ \A g \in 1..Len(groups) : Chain(arrays, groups[g]) = groups[g].born
    /\ \A k \in 1..Len(last.calls) :
          LET c == last.calls[k]
          IN c.caller # Root =>
                c.delivered = groups[c.caller].born \o c.supplied

\* C3: Route(basePath, fn) invokes fn exactly once, with a group whose base
\* path is the caller's joined with basePath and whose chain is the caller's
\* chain; every route declared inside fn carries the caller's middlewares.
C3_RouteInheritsChain ==
    last.op = "Route" =>
        LET n == Len(groups)
            callerChain == IF last.caller = Root THEN <<>>
                           ELSE Chain(arrays, groups[last.caller])
        IN /\ last.fns = <<n>>
           /\ groups[n].basePath =
                 (IF last.caller = Root THEN last.path
                  ELSE fullPath(groups[last.caller].basePath, last.path))
           /\ Chain(arrays, groups[n]) = callerChain
           /\ \A k \in 1..Len(last.calls) :
                 /\ last.calls[k].caller = n
                 /\ last.calls[k].delivered =
                       callerChain \o last.calls[k].supplied

\* C8: a per-verb call with zero handlers, on the root or on any group,
\* fails with MissingHandler and registers no route.
C8_ZeroHandlersMissingHandler ==
    \A k \in 1..Len(last.calls) :
        last.calls[k].supplied = <<>> =>
            /\ last.calls[k].err = ErrPutAHandler
            /\ last.calls[k].added = 0

\* C9: validateHandler fails, naming the type, exactly for the values that
\* have none of the four handler shapes; and a registration through a group
\* that was given a malformed middleware, or with a malformed handler,
\* returns an error and registers nothing.
C9_MalformedFailsAtRegistration ==
    /\ \A v \in BatchValues :
          LET r == validateHandler(v)
          IN IF v.typ \in HandlerTypes
             THEN r.err = NoErr
             ELSE /\ r.err.kind = "InvalidHandlerType"
                  /\ r.err.typ = (IF v = UntypedNil THEN "<nil>" ELSE v.typ)
                  /\ r.handler = NilHandler
    /\ \A k \in 1..Len(last.calls) :
          LET c == last.calls[k]
              given == IF c.caller = Root THEN c.supplied
                       ELSE Supplied(c.caller) \o c.supplied
          IN (c.caller # Root => GroupOnly(c.caller)) =>
                ((\E i \in 1..Len(given) : ~Valid(given[i])) =>
                    c.err # NoErr /\ c.added = 0)

\* C14: every group, at any depth, holds the root server as its manager
\* and its fully resolved prefix; a per-verb call on a group adds exactly one
\* route to the root table when it succeeds and none when it fails, under
\* the group's prefix joined once with the path, and with the middlewares
\* given to the group's ancestors and to the group each exactly once before
\* the handlers of the call.
C14_GroupsDelegateToRoot ==
    /\ \A g \in 1..Len(groups) : groups[g].server = Root
    /\ last.op \in {"Group", "Route"} =>
          groups[Len(groups)].basePath =
             (IF last.caller = Root THEN last.path
              ELSE fullPath(groups[last.caller].basePath, last.path))
    /\ \A k \in 1..Len(last.calls) :
          LET c == last.calls[k]
          IN c.caller # Root =>
                /\ c.added = (IF c.err = NoErr THEN 1 ELSE 0)
                /\ c.endpoint = fullPath(groups[c.caller].basePath, c.path)
                /\ c.delivered = Supplied(c.caller) \o c.supplied

----------------------------------------------------------------------------
(* Properties of path joining (SpecJoin) *)

\* C4: account, profile and :name composed through Server.Group,
\* RouteGroup.Group (or Route) and a per-verb call give /account/profile/:name
\* whatever leading and trailing slashes each argument has.
C4_JoinNormalized ==
    (/\ segs[1] \in Variants("account")
     /\ segs[2] \in Variants("profile")
     /\ segs[3] \in Variants(":name")) =>
        \A k \in 1..Len(last.calls) :
            last.calls[k].endpoint =
                <<Sep, "account", Sep, "profile", Sep, ":name">>

\* C5: a group joining its base path with "" or "/" gives the base path
\* unchanged, in Group, in Route and in every per-verb call.
C5_EmptyOrSlashKeepsBase ==
    /\ (last.op \in {"Group", "Route"} /\ last.caller # Root
          /\ last.path \in {<<>>, <<Sep>>}) =>
            groups[Len(groups)].basePath = groups[last.caller].basePath
    /\ \A k \in 1..Len(last.calls) :
          LET c == last.calls[k]
          IN (c.caller # Root /\ c.path \in {<<>>, <<Sep>>}) =>
                /\ c.endpoint = groups[c.caller].basePath
                /\ c.added = 1 =>
                      routes[Len(routes)].pattern =
                          <<c.method, " ">> \o groups[c.caller].basePath

C5_Witness ==
    /\ last.op = "Route"
    /\ last.path = <<Sep>>
    /\ Len(last.calls) = 1
    /\ last.calls[1].path = <<>>
    /\ last.calls[1].added = 1
    /\ last.calls[1].method = "PATCH"
    /\ groups[1].basePath = <<Sep, "account", Sep>>
    /\ last.calls[1].endpoint = <<Sep, "account", Sep>>

----------------------------------------------------------------------------
(* Properties of registerHandlers (SpecBatch) *)

\* C6: on a non-empty list of valid values registerHandlers returns the
\* normalisation of the last as the handler and those of the others, in
\* order, none dropped or duplicated, as the middlewares, with no error.
C6_BatchSplitsLast ==
    LET hs == batch.handlers
        n == Len(hs)
    IN (batch.done /\ n > 0 /\ \A i \in 1..n : Valid(hs[i])) =>
          /\ batch.res.err = NoErr
          /\ batch.res.handler = validateHandler(hs[n]).handler
          /\ batch.res.middlewares =
                [i \in 1..(n - 1) |-> validateHandler(hs[i]).handler]

C6_Witness ==
    /\ batch.done
    /\ batch.handlers = <<xD, cB, fC>>
    /\ batch.res.err = NoErr
    /\ Len(batch.res.middlewares) = 2

\* C7: when some element is malformed the batch fails with a nil handler,
\* a nil middleware list and an error for the first malformed element: a
\* middleware failure with its zero-based position when it is not the last
\* element, a final-handler failure when it is.
C7_BatchReportsFirstMalformed ==
    LET hs == batch.handlers
        n == Len(hs)
        malformed == { i \in 1..n : ~Valid(hs[i]) }
    IN (batch.done /\ malformed # {}) =>
          LET first == CHOOSE i \in malformed : \A j \in malformed : i <= j
          IN /\ batch.res.handler = NilHandler
             /\ batch.res.middlewares = <<>>
             /\ batch.res.err # NoErr
             /\ batch.res.err.typ = InvalidHandlerType(hs[first]).typ
             /\ IF first < n
                THEN batch.res.err.kind = "middleware"
                       /\ batch.res.err.pos = first - 1
                ELSE batch.res.err.kind = "final"

C7_Witness ==
    /\ batch.done
    /\ batch.handlers = <<hA, bad, UntypedNil>>
    /\ batch.res.err = [kind |-> "middleware", pos |-> 1, typ |-> "string"]

\* C19: a registration that succeeds never stores a nil handler: when
\* registerHandlers returns no error, neither the terminal handler nor any
\* middleware it returns is the nil Handler, whatever values were accepted
\* (a nil function value of type Handler or of the raw two-argument function
\* type included).
C19_NoNilHandlerAccepted ==
    (batch.done /\ batch.handlers # <<>> /\ batch.res.err = NoErr) =>
        /\ batch.res.handler # NilHandler
        /\ \A i \in 1..Len(batch.res.middlewares) :
              batch.res.middlewares[i] # NilHandler

----------------------------------------------------------------------------
(* Properties of handler shapes (SpecServe) *)

----------------------------------------------------------------------------
(* Properties of a request served by a route (SpecExchange) *)

\* The links a request may go through, in order: every middleware of the
\* route by its index, then the handler
Expected(route) ==
    [i \in 1..(Len(route.middlewares) + 1) |->
        IF i <= Len(route.middlewares) THEN [kind |-> "mw", idx |-> i]
        ELSE [kind |-> "h", idx |-> 0]]

\* C11: a request runs the middlewares of its route in their order and then
\* the handler, each at most once; a link runs only after the one before it
\* returned nil; after an error nothing more runs; when every middleware
\* returned nil the handler runs; and a header a middleware set before
\* anything was committed is part of the response the handler sends.
C11_ChainRunsInOrder ==
    exchange.status # "idle" =>
        LET n == Len(exchange.trace)
            want == Expected(exchange.route)
        IN /\ n <= Len(want)
           /\ exchange.trace = SubSeq(want, 1, n)
           /\ \A i \in 1..(n - 1) : exchange.outs[i] = "nil"
           /\ exchange.status = "done" =>
                 (exchange.outs[n] # "nil" \/ n = Len(want))
           /\ (/\ exchange.status = "done"
               /\ exchange.route.handler = "a"
               /\ exchange.outs[n] = "nil"
               /\ exchange.route.middlewares # <<>>
               /\ exchange.route.middlewares[1] = "d")
              => exchange.ws[1].sent["X-Middleware"] = <<"processed">>

C11_Witness ==
    /\ exchange.status = "done"
    /\ exchange.route.middlewares = <<"d", "d">>
    /\ exchange.route.handler = "a"
    /\ Len(exchange.trace) = 3
    /\ exchange.ws[1].sent["X-Middleware"] = <<"processed">>
    /\ exchange.ws[1].body = <<"Hello World">>

\* A body without the line end that closes it
TrimLine(b) ==
    IF b # <<>> /\ b[Len(b)] = "\n" THEN SubSeq(b, 1, Len(b) - 1) ELSE b

\* C12: the response to an error returned by a handler or middleware, when
\* nothing was committed before and the error carries a message and a
\* status code WriteHeader accepts: a ServerError of content type
\* application/json gives its status and the body {"err":"<message>"};
\* a ServerError of another content type gives its status, its content type
\* and the message as body; any other error gives 500 and the message.
C12_ErrorResponseShape ==
    (/\ exchange.status = "done"
     /\ exchange.outs # <<>>
     /\ exchange.outs[Len(exchange.outs)] \in ErrorIds
     /\ ~exchange.before[1].wrote) =>
        LET e == ErrorValue(exchange.outs[Len(exchange.outs)])
            w == exchange.ws[1]
        IN (e.ptr = "set" /\ e.Err # <<>>
               /\ (e.tagged => e.StatusCode >= 100)) =>
             IF e.tagged /\ e.ContentType = "application/json"
             THEN /\ w.code = e.StatusCode
                  /\ w.body = ErrBytes(e.Err[1])
             ELSE IF e.tagged
             THEN /\ w.code = e.StatusCode
                  /\ w.sent["Content-Type"] = <<e.ContentType>>
                  /\ TrimLine(w.body) = e.Err
             ELSE /\ w.code = StatusInternalServerError
                  /\ TrimLine(w.body) = e.Err

\* C13: whenever a handler or middleware returned a non-nil error, the
\* request ends with exactly one response written: the boundary wrote the
\* error response (never nothing), and nothing else was written to the
\* writer of the request (never a second response).
C13_ExactlyOneResponse ==
    (/\ exchange.status = "done"
     /\ exchange.outs # <<>>
     /\ exchange.outs[Len(exchange.outs)] \in ErrorIds) =>
        /\ ~exchange.panic
        /\ exchange.ws[1].wrote
        /\ ~exchange.before[1].wrote

----------------------------------------------------------------------------
(* Properties of ParamsParser (SpecParams) *)

\* What each segment is as a literal: its number in decimal when it is an
\* integer literal, the least width (8, 16, 32, 64) whose signed and whose
\* unsigned range hold it (0 when none does), whether it is a float32 and a
\* float64 literal in range, and its truth value when it is a bool literal
Literals ==
    {
      [seg |-> <<"4", "2">>,
       number |-> <<"4", "2">>, signed |-> 8, unsigned |-> 8,
       float32 |-> TRUE, float64 |-> TRUE, bool |-> ""],
      [seg |-> <<"3", "0", "0">>,
       number |-> <<"3", "0", "0">>, signed |-> 16, unsigned |-> 16,
       float32 |-> TRUE, float64 |-> TRUE, bool |-> ""],
      [seg |-> <<"-", "1">>,
       number |-> <<"-", "1">>, signed |-> 8, unsigned |-> 0,
       float32 |-> TRUE, float64 |-> TRUE, bool |-> ""],
      [seg |-> <<"-", "0">>,
       number |-> <<"0">>, signed |-> 8, unsigned |-> 0,
       float32 |-> TRUE, float64 |-> TRUE, bool |-> ""],
      [seg |-> <<"1", "2", "7">>,
       number |-> <<"1", "2", "7">>, signed |-> 8, unsigned |-> 8,
       float32 |-> TRUE, float64 |-> TRUE, bool |-> ""],
      [seg |-> <<"1", "2", "8">>,
       number |-> <<"1", "2", "8">>, signed |-> 16, unsigned |-> 8,
       float32 |-> TRUE, float64 |-> TRUE, bool |-> ""],
      [seg |-> <<"-", "1", "2", "8">>,
       number |-> <<"-", "1", "2", "8">>, signed |-> 8, unsigned |-> 0,
       float32 |-> TRUE, float64 |-> TRUE, bool |-> ""],
      [seg |-> <<"-", "1", "2", "9">>,
       number |-> <<"-", "1", "2", "9">>, signed |-> 16, unsigned |-> 0,
       float32 |-> TRUE, float64 |-> TRUE, bool |-> ""],
      [seg |-> <<"a", "b", "c">>,
       number |-> <<>>, signed |-> 0, unsigned |-> 0,
       float32 |-> FALSE, float64 |-> FALSE, bool |-> ""],
      [seg |-> <<"t", "r", "u", "e">>,
       number |-> <<>>, signed |-> 0, unsigned |-> 0,
       float32 |-> FALSE, float64 |-> FALSE, bool |-> "true"],
      [seg |-> <<"1", ".", "5">>,
       number |-> <<>>, signed |-> 0, unsigned |-> 0,
       float32 |-> TRUE, float64 |-> TRUE, bool |-> ""],
      [seg |-> <<"1", "e", "3", "9">>,
       number |-> <<>>, signed |-> 0, unsigned |-> 0,
       float32 |-> FALSE, float64 |-> TRUE, bool |-> ""],
      [seg |-> <<"+", "7">>,
       number |-> <<"7">>, signed |-> 8, unsigned |-> 0,
       float32 |-> TRUE, float64 |-> TRUE, bool |-> ""],
      [seg |-> <<"0", "0", "7">>,
       number |-> <<"7">>, signed |-> 8, unsigned |-> 8,
       float32 |-> TRUE, float64 |-> TRUE, bool |-> ""],
      [seg |-> <<"6", "5", "5", "3", "6">>,
       number |-> <<"6", "5", "5", "3", "6">>, signed |-> 32, unsigned |-> 32,
       float32 |-> TRUE, float64 |-> TRUE, bool |-> ""],
      [seg |-> <<"4", "2", "9", "4", "9", "6", "7", "2", "9", "6">>,
       number |-> <<"4", "2", "9", "4", "9", "6", "7", "2", "9", "6">>, signed |-> 64, unsigned |-> 64,
       float32 |-> TRUE, float64 |-> TRUE, bool |-> ""],
      [seg |-> <<"9", "2", "2", "3", "3", "7", "2", "0", "3", "6", "8", "5", "4", "7", "7", "5", "8", "0", "8">>,
       number |-> <<"9", "2", "2", "3", "3", "7", "2", "0", "3", "6", "8", "5", "4", "7", "7", "5", "8", "0", "8">>, signed |-> 0, unsigned |-> 64,
       float32 |-> TRUE, float64 |-> TRUE, bool |-> ""],
      [seg |-> <<"1", "8", "4", "4", "6", "7", "4", "4", "0", "7", "3", "7", "0", "9", "5", "5", "1", "6", "1", "6">>,
       number |-> <<"1", "8", "4", "4", "6", "7", "4", "4", "0", "7", "3", "7", "0", "9", "5", "5", "1", "6", "1", "6">>, signed |-> 0, unsigned |-> 0,
       float32 |-> TRUE, float64 |-> TRUE, bool |-> ""]
    }

LiteralOf(seg) == CHOOSE l \in Literals : l.seg = seg

Width(kind) == IF BitSize(kind) = 0 THEN IntSize ELSE BitSize(kind)

\* The segment is a valid literal within the range of the kind
Fits(kind, seg) ==
    LET l == LiteralOf(seg)
    IN CASE kind = "string" -> TRUE
         [] kind \in IntKinds -> l.signed # 0 /\ l.signed <= Width(kind)
         [] kind \in UintKinds -> l.unsigned # 0 /\ l.unsigned <= Width(kind)
         [] kind = "float32" -> l.float32
         [] kind = "float64" -> l.float64
         [] kind = "bool" -> l.bool # ""
         [] OTHER -> FALSE

\* The value the kind gives a fitting segment
ValueOf(kind, seg) ==
    LET l == LiteralOf(seg)
    IN CASE kind \in IntKinds \cup UintKinds -> l.number
         [] kind = "bool" -> <<l.bool>>
         [] OTHER -> seg

\* The key of a field: its tag if it has one, else its declared name
KeyOf(f) == IF f.tag # "" THEN f.tag ELSE f.name

\* Field i is one the call has to assign: settable, with a captured segment
Assigned(i) ==
    /\ parse.before[i].settable
    /\ Captured(parse.params, KeyOf(parse.before[i]))

SegOf(i) == Lookup(parse.params, KeyOf(parse.before[i]))

\* Field i is assigned without failure, or not assigned at all
Passes(i) == Assigned(i) => Fits(parse.before[i].kind, SegOf(i))

\* C15: a field is resolved by its `param` tag if it has one and else by
\* its declared name; a field whose key has no captured segment keeps the
\* value it had, a field that cannot be set is skipped, and neither makes
\* the call fail.
C15_FieldResolution ==
    parse.status = "done" =>
        /\ \A i \in 1..Len(parse.dest) :
              ~Assigned(i) => parse.dest[i] = parse.before[i]
        /\ (\A i \in 1..Len(parse.dest) : ~Assigned(i)) =>
              parse.err = NoParamErr
        /\ \A i \in 1..Len(parse.dest) :
              (/\ Assigned(i)
               /\ parse.before[i].kind = "string"
               /\ \A j \in 1..(i - 1) : Passes(j))
              => parse.dest[i].value = [from |-> "segment", v |-> SegOf(i)]

C15_Witness ==
    /\ parse.status = "done"
    /\ parse.err = NoParamErr
    /\ Len(parse.dest) = 2
    /\ parse.dest[1].name = "Name"
    /\ parse.dest[1].value = [from |-> "segment", v |-> <<"3", "0", "0">>]
    /\ parse.dest[2].tag = "id"
    /\ parse.dest[2].kind = "string"
    /\ parse.dest[2].value = [from |-> "segment", v |-> <<"4", "2">>]

\* C16: the first field the call has to assign whose segment does not fit:
\* every assigned field before it received its value (a string the segment
\* verbatim, a number or bool the parsed value), and the call returns the
\* conversion error naming the segment and the kind, or the unsupported-type
\* error for a kind outside string, the integers, the floats and bool; when
\* every segment fits the call returns nil.
C16_Coercion ==
    parse.status = "done" =>
        /\ \A i \in 1..Len(parse.dest) :
              (Assigned(i) /\ \A j \in 1..(i - 1) : Passes(j)) =>
                 IF Passes(i)
                 THEN parse.dest[i].value =
                         [from |-> "segment",
                          v |-> ValueOf(parse.before[i].kind, SegOf(i))]
                 ELSE IF parse.before[i].kind \in OtherKinds
                 THEN parse.err = UnsupportedErr(parse.before[i].kind)
                 ELSE parse.err = ConvertErr(SegOf(i), parse.before[i].kind)
        /\ (\A i \in 1..Len(parse.dest) : Passes(i)) =>
              parse.err = NoParamErr

C16_Witness ==
    /\ parse.status = "done"
    /\ Len(parse.dest) = 2
    /\ parse.dest[1].kind = "int16"
    /\ parse.dest[1].value = [from |-> "segment", v |-> <<"3", "0", "0">>]
    /\ parse.dest[2].kind = "int8"
    /\ parse.err = ConvertErr(<<"3", "0", "0">>, "int8")

\* C20: when the call returns an error, the fields declared before the
\* first failing one that had to be assigned hold their new values, and the
\* failing field and every field after it hold the values they had.
C20_StopsAtFirstFailure ==
    (parse.status = "done" /\ parse.err # NoParamErr) =>
        \E f \in 1..Len(parse.dest) :
            /\ ~Passes(f)
            /\ \A j \in 1..(f - 1) :
                  /\ Passes(j)
                  /\ Assigned(j) => parse.dest[j].value.from = "segment"
            /\ \A k \in f..Len(parse.dest) : parse.dest[k] = parse.before[k]

C20_Witness ==
    /\ parse.status = "done"
    /\ parse.err = UnsupportedErr("slice")
    /\ Len(parse.dest) = 2
    /\ parse.dest[1].kind = "uint8"
    /\ parse.dest[1].value = [from |-> "segment", v |-> <<"4", "2">>]
    /\ parse.dest[2] = parse.before[2]

----------------------------------------------------------------------------
(* Properties of a Response (SpecReply) *)

\* The code the rule gives: the code last set when it lies in 100..511, and
\* 200 when none was set or the one set lies outside
RuleCode(set) ==
    IF set # <<>> /\ set[Len(set)] >= 100 /\ set[Len(set)] <= 511
    THEN set[Len(set)]
    ELSE 200

\* C17: the status code of the response Send, SendStatus or JSON writes is
\* the code last set with Status or SendStatus when it lies in 100..511 and
\* 200 otherwise, the same for the three.
C17_StatusRule ==
    reply.status = "done" =>
        /\ reply.ws[1].wrote
        /\ reply.ws[1].code = RuleCode(reply.set)

C17_Witness ==
    /\ reply.status = "done"
    /\ reply.op = "JSON"
    /\ reply.set = <<404, 512>>
    /\ reply.ws[1].code = 200

\* C18: Send with a non-empty body puts the Content-Type detected from the
\* body into the header block that goes out with the status line, and
\* writes the body last.
C18_ContentTypeBeforeCommit ==
    (reply.status = "done" /\ reply.op = "Send" /\ reply.body # <<>>) =>
        /\ reply.ws[1].sent["Content-Type"] =
              <<DetectContentType(reply.body)>>
        /\ reply.ws[1].body = reply.body

-----------------------------------------------------------------------------
(* Body consumption *)

BodyCalls == { "Body", "Context.Body" }

\* Whether the stream was read before call i of the log: by an earlier call
\* of Body, or by an earlier FormFile that read the form off the stream.
ReadBefore(i) ==
    \E j \in 1..(i - 1) :
        \/ stream.log[j].op \in BodyCalls
        \/ /\ stream.log[j].op = "FormFile"
           /\ ~stream.log[j].err
           /\ \A k \in 1..(j - 1) :
                  stream.log[k].op = "FormFile" => stream.log[k].err

\* C21 (as amended): a call of Body returns the complete body content when
\* nothing has read the request's stream before it, and an empty buffer as
\* soon as something has: an earlier call of Body, through whichever
\* wrapper and whatever happened in between, or a FormFile that read the
\* form of a multipart request.
C21_BodyReadsWhatIsLeft ==
    stream.status = "open" =>
        \A i \in 1..Len(stream.log) :
            stream.log[i].op \in BodyCalls =>
                stream.log[i].got = IF ReadBefore(i) THEN <<>>
                                    ELSE stream.content

\* A body that is not empty was returned whole by the first call and not at
\* all by a later call made through another wrapper, FormFile in between.
C21_Witness ==
    /\ stream.status = "open"
    /\ stream.content # <<>>
    /\ Len(stream.log) = 3
    /\ stream.log[1].op = "Body"
    /\ stream.log[1].got = stream.content
    /\ stream.log[2].op = "FormFile"
    /\ stream.log[3].op = "Body"
    /\ stream.log[3].by # stream.log[1].by
    /\ stream.log[3].got = <<>>

\* C21 as stated: the first call of Body on a request returns the complete
\* body content and every later call returns an empty buffer.
C21_FirstCallReturnsAll ==
    stream.status = "open" =>
        \A i \in 1..Len(stream.log) :
            stream.log[i].op \in BodyCalls =>
                stream.log[i].got =
                    IF \E j \in 1..(i - 1) : stream.log[j].op \in BodyCalls
                    THEN <<>>
                    ELSE stream.content

====
